---- MODULE Spec2Model ----
(***************************************************************************)
(* A model of the red-black tree of erriapo/redblacktree                   *)
(* (src/redblacktree.go).  The heap of *Node values is a function from     *)
(* node addresses to records with the fields of Node; a tree value is the  *)
(* record [root, node] of Tree.root and that heap.  Every method of Tree   *)
(* is an operator from a tree value to the tree value it leaves behind,    *)
(* written statement by statement after the Go source.                     *)
(***************************************************************************)
EXTENDS Integers, Sequences, FiniteSets, TLC

\* Number of distinct valid int keys the callers use.
MaxKey == 4

\* The nil pointer.
NIL == 0

\* const BLACK, RED Color = true, false
BLACK == TRUE
RED == FALSE

\* Direction constants.
LEFT == "LEFT"
RIGHT == "RIGHT"
NODIR == "NODIR"

\* The nil interface{} value (the zero value of Node.payload).
NilPayload == "nil"

Keys == 1..MaxKey
Payloads == {"p1", "p2"}

\* Node addresses.  More addresses than keys, so that a tree holding a key
\* twice could still be represented.
Addrs == 1..(2 * MaxKey)

VARIABLES
    root,      \* Tree.root: an address or NIL
    node,      \* the heap: [allocated addresses -> Node]
    status,    \* "ok": the last call returned; "panic": it dereferenced nil;
               \* "hung": it never returns
    last,      \* the last call made: [op, key, data, found]
    stored,    \* history: the keys Put and not Deleted since
    lock,      \* the package mutex `lock`: the goroutine holding it, or Nobody
    logger,    \* the package variable `logger`: the writer its Logger writes to
    pc         \* where each goroutine of the concurrent caller stands

vars == <<root, node, status, last, stored, lock, logger, pc>>

\* The package state, which a caller with one goroutine that never calls
\* SetOutput leaves alone.
pkgvars == <<lock, logger, pc>>

\* No goroutine holds the mutex.
Nobody == "nobody"

\* The writers a Logger is made for: init and TraceOff use ioutil.Discard,
\* TraceOn uses os.Stderr.
Discard == "ioutil.Discard"
Stderr == "os.Stderr"
Writers == {Discard, Stderr}

\* The goroutines of the concurrent caller: two that call SetOutput (TraceOn,
\* TraceOff) and one that calls the methods of a tree.
Setters == {"setter1", "setter2"}
Workers == {"worker"}
Goroutines == Setters \cup Workers

\* A goroutine that is in no call.
Idle == [at |-> "idle"]

\* The Tree value of the current state.
T == [root |-> root, node |-> node]

----------------------------------------------------------------------------
\* Comparator

\* Mutant of IntComparator: the difference of the keys.
IntComparatorDifference(o1, o2) == o1 - o2

IntComparator(o1, o2) ==
    IF o1 > o2 THEN 1
    ELSE IF o1 < o2 THEN -1
    ELSE 0

\* Tree.cmp of a tree made by NewTree.
cmp(o1, o2) == IntComparator(o1, o2)

\* mustBeValidKey on a key of kind int: no error.
ValidIntKey(key) == key \in Int

----------------------------------------------------------------------------
\* Lookup

RECURSIVE internalLookup(_, _, _, _, _)
internalLookup(t, parent, this, key, dir) ==
    IF this = NIL THEN [found |-> FALSE, parent |-> parent, dir |-> dir]
    ELSE IF cmp(key, t.node[this].key) = 0
         THEN [found |-> TRUE, parent |-> parent, dir |-> dir]
    ELSE IF cmp(key, t.node[this].key) < 0
         THEN internalLookup(t, this, t.node[this].left, key, LEFT)
    ELSE IF cmp(key, t.node[this].key) > 0
         THEN internalLookup(t, this, t.node[this].right, key, RIGHT)
    ELSE [found |-> FALSE, parent |-> parent, dir |-> NODIR]

\* Mutant of GetParent: for a key that is not found, the parent's parent is
\* reported.
GetParentReportsGrandparent(t, key) ==
    IF ~ValidIntKey(key) THEN [found |-> FALSE, parent |-> NIL, dir |-> NODIR]
    ELSE IF t.root = NIL THEN [found |-> FALSE, parent |-> NIL, dir |-> NODIR]
    ELSE LET r == internalLookup(t, NIL, t.root, key, NODIR) IN
         IF r.found \/ r.parent = NIL \/ t.node[r.parent].parent = NIL THEN r
         ELSE [r EXCEPT !.parent = t.node[r.parent].parent]

GetParent(t, key) ==
    IF ~ValidIntKey(key) THEN [found |-> FALSE, parent |-> NIL, dir |-> NODIR]
    ELSE IF t.root = NIL THEN [found |-> FALSE, parent |-> NIL, dir |-> NODIR]
    ELSE internalLookup(t, NIL, t.root, key, NODIR)

\* getNode: <<ok, node address>>
getNode(t, key) ==
    LET r == GetParent(t, key) IN
    IF r.found
    THEN IF r.parent = NIL THEN <<TRUE, t.root>>
         ELSE LET n == IF r.dir = LEFT THEN t.node[r.parent].left
                       ELSE IF r.dir = RIGHT THEN t.node[r.parent].right
                       ELSE NIL
              IN IF n # NIL THEN <<TRUE, n>> ELSE <<FALSE, NIL>>
    ELSE <<FALSE, NIL>>

\* Get: <<found, payload>>
Get(t, key) ==
    IF ~ValidIntKey(key) THEN <<FALSE, NilPayload>>
    ELSE LET r == getNode(t, key) IN
         IF r[1] THEN <<TRUE, t.node[r[2]].payload>>
         ELSE <<FALSE, NilPayload>>

\* Mutant of Has: a key found at the root (no parent) is reported missing.
HasNeedsParent(t, key) ==
    IF ~ValidIntKey(key) THEN FALSE
    ELSE /\ internalLookup(t, NIL, t.root, key, NODIR).found
         /\ internalLookup(t, NIL, t.root, key, NODIR).parent # NIL

Has(t, key) ==
    IF ~ValidIntKey(key) THEN FALSE
    ELSE internalLookup(t, NIL, t.root, key, NODIR).found

\* Mutant of getMinimum: the left links are not followed.
getMinimumNoDescent(t, x) == x

RECURSIVE getMinimum(_, _)
getMinimum(t, x) ==
    IF t.node[x].left # NIL THEN getMinimum(t, t.node[x].left) ELSE x

----------------------------------------------------------------------------
\* Rotations.  Each s<n>(u) is one statement (or one if statement) of the
\* method, taking the tree value before it to the tree value after it.

\* Mutant of RotateRight: nothing is rewired.
RotateRightDoesNothing(t, y) == t

\* Mutant of RotateRight: the right subtree of x is not handed to y.
RotateRightDropsInner(t, y) ==
    IF y = NIL THEN t
    ELSE IF t.node[y].left = NIL THEN t
    ELSE
    LET x == t.node[y].left
        s1(u) == [u EXCEPT !.node[y].left = NIL]
        s3(u) == [u EXCEPT !.node[x].parent = u.node[y].parent]
        s4(u) == IF u.node[y].parent = NIL THEN [u EXCEPT !.root = x]
                 ELSE IF y = u.node[u.node[y].parent].left
                      THEN [u EXCEPT !.node[u.node[y].parent].left = x]
                      ELSE [u EXCEPT !.node[u.node[y].parent].right = x]
        s5(u) == [u EXCEPT !.node[x].right = y]
        s6(u) == [u EXCEPT !.node[y].parent = x]
    IN  s6(s5(s4(s3(s1(t)))))

\* Mutant of RotateRight: the two pivots exchange their colors, as in a
\* rotation that recolors.
RotateRightSwapsColors(t, y) ==
    IF y = NIL THEN t
    ELSE IF t.node[y].left = NIL THEN t
    ELSE
    LET x == t.node[y].left
        s1(u) == [u EXCEPT !.node[y].left = u.node[x].right]
        s2(u) == IF u.node[x].right # NIL
                 THEN [u EXCEPT !.node[u.node[x].right].parent = y]
                 ELSE u
        s3(u) == [u EXCEPT !.node[x].parent = u.node[y].parent]
        s4(u) == IF u.node[y].parent = NIL THEN [u EXCEPT !.root = x]
                 ELSE IF y = u.node[u.node[y].parent].left
                      THEN [u EXCEPT !.node[u.node[y].parent].left = x]
                      ELSE [u EXCEPT !.node[u.node[y].parent].right = x]
        s5(u) == [u EXCEPT !.node[x].right = y]
        s6(u) == [u EXCEPT !.node[y].parent = x]
        s7(u) == [u EXCEPT !.node[x].color = t.node[y].color,
                           !.node[y].color = t.node[x].color]
    IN  s7(s6(s5(s4(s3(s2(s1(t)))))))

RotateRight(t, y) ==
    IF y = NIL THEN t
    ELSE IF t.node[y].left = NIL THEN t
    ELSE
    LET x == t.node[y].left
        s1(u) == [u EXCEPT !.node[y].left = u.node[x].right]
        s2(u) == IF u.node[x].right # NIL
                 THEN [u EXCEPT !.node[u.node[x].right].parent = y]
                 ELSE u
        s3(u) == [u EXCEPT !.node[x].parent = u.node[y].parent]
        s4(u) == IF u.node[y].parent = NIL THEN [u EXCEPT !.root = x]
                 ELSE IF y = u.node[u.node[y].parent].left
                      THEN [u EXCEPT !.node[u.node[y].parent].left = x]
                      ELSE [u EXCEPT !.node[u.node[y].parent].right = x]
        s5(u) == [u EXCEPT !.node[x].right = y]
        s6(u) == [u EXCEPT !.node[y].parent = x]
    IN  s6(s5(s4(s3(s2(s1(t))))))

\* Mutant of RotateLeft: the subtree that moves from y to x keeps y as its
\* parent.
RotateLeftKeepsParent(t, x) ==
    IF x = NIL THEN t
    ELSE IF t.node[x].right = NIL THEN t
    ELSE
    LET y == t.node[x].right
        s1(u) == [u EXCEPT !.node[x].right = u.node[y].left]
        s3(u) == [u EXCEPT !.node[y].parent = u.node[x].parent]
        s4(u) == IF u.node[x].parent = NIL THEN [u EXCEPT !.root = y]
                 ELSE IF x = u.node[u.node[x].parent].left
                      THEN [u EXCEPT !.node[u.node[x].parent].left = y]
                      ELSE [u EXCEPT !.node[u.node[x].parent].right = y]
        s5(u) == [u EXCEPT !.node[y].left = x]
        s6(u) == [u EXCEPT !.node[x].parent = y]
    IN  s6(s5(s4(s3(s1(t)))))

\* Mutant of RotateLeft: a node without a right child is rotated to the
\* right instead.
RotateLeftFallsBack(t, x) ==
    IF x = NIL THEN t
    ELSE IF t.node[x].right = NIL THEN RotateRight(t, x)
    ELSE
    LET y == t.node[x].right
        s1(u) == [u EXCEPT !.node[x].right = u.node[y].left]
        s2(u) == IF u.node[y].left # NIL
                 THEN [u EXCEPT !.node[u.node[y].left].parent = x]
                 ELSE u
        s3(u) == [u EXCEPT !.node[y].parent = u.node[x].parent]
        s4(u) == IF u.node[x].parent = NIL THEN [u EXCEPT !.root = y]
                 ELSE IF x = u.node[u.node[x].parent].left
                      THEN [u EXCEPT !.node[u.node[x].parent].left = y]
                      ELSE [u EXCEPT !.node[u.node[x].parent].right = y]
        s5(u) == [u EXCEPT !.node[y].left = x]
        s6(u) == [u EXCEPT !.node[x].parent = y]
    IN  s6(s5(s4(s3(s2(s1(t))))))

\* Mutant of RotateLeft: y is always spliced in as the left child of x's
\* parent.
RotateLeftSplicesLeft(t, x) ==
    IF x = NIL THEN t
    ELSE IF t.node[x].right = NIL THEN t
    ELSE
    LET y == t.node[x].right
        s1(u) == [u EXCEPT !.node[x].right = u.node[y].left]
        s2(u) == IF u.node[y].left # NIL
                 THEN [u EXCEPT !.node[u.node[y].left].parent = x]
                 ELSE u
        s3(u) == [u EXCEPT !.node[y].parent = u.node[x].parent]
        s4(u) == IF u.node[x].parent = NIL THEN [u EXCEPT !.root = y]
                 ELSE [u EXCEPT !.node[u.node[x].parent].left = y]
        s5(u) == [u EXCEPT !.node[y].left = x]
        s6(u) == [u EXCEPT !.node[x].parent = y]
    IN  s6(s5(s4(s3(s2(s1(t))))))

RotateLeft(t, x) ==
    IF x = NIL THEN t
    ELSE IF t.node[x].right = NIL THEN t
    ELSE
    LET y == t.node[x].right
        s1(u) == [u EXCEPT !.node[x].right = u.node[y].left]
        s2(u) == IF u.node[y].left # NIL
                 THEN [u EXCEPT !.node[u.node[y].left].parent = x]
                 ELSE u
        s3(u) == [u EXCEPT !.node[y].parent = u.node[x].parent]
        s4(u) == IF u.node[x].parent = NIL THEN [u EXCEPT !.root = y]
                 ELSE IF x = u.node[u.node[x].parent].left
                      THEN [u EXCEPT !.node[u.node[x].parent].left = y]
                      ELSE [u EXCEPT !.node[u.node[x].parent].right = y]
        s5(u) == [u EXCEPT !.node[y].left = x]
        s6(u) == [u EXCEPT !.node[x].parent = y]
    IN  s6(s5(s4(s3(s2(s1(t))))))

\* Mutant of isRed: no node is seen as Red.
isRedNever(t, n) == FALSE

isRed(t, n) ==
    IF n = NIL THEN FALSE ELSE t.node[n].color = RED

----------------------------------------------------------------------------
\* Put

\* &Node{...}: the address of a fresh node.  Addresses are not observable;
\* the allocator hands out the address numbered like the key when it is
\* free, and otherwise the lowest free one.
NewAddr(t, key) ==
    IF key \notin DOMAIN t.node THEN key
    ELSE CHOOSE a \in Addrs \ DOMAIN t.node :
            \A b \in Addrs \ DOMAIN t.node : a <= b

\* A Node literal; fields left out of the literal hold their zero value.
NewNode(key, payload, color, parent) ==
    [key |-> key, payload |-> payload, color |-> color,
     left |-> NIL, right |-> NIL, parent |-> parent]

\* Mutant of RootBlack: the root keeps the color the loop left it.
RootBlackForgotten(t) == t

\* The last statement of fixupPut: t.root.color = BLACK
RootBlack(t) == [t EXCEPT !.node[t.root].color = BLACK]

\* Mutant of fixupPutCase1: z.parent is not colored Black.
fixupPutCase1KeepsParentRed(t, p, y, grandparent) ==
    [t EXCEPT !.node[y].color = BLACK,
              !.node[grandparent].color = RED]

\* case 1 of fixupPut: the uncle y is Red
fixupPutCase1(t, p, y, grandparent) ==
    [t EXCEPT !.node[p].color = BLACK,
              !.node[y].color = BLACK,
              !.node[grandparent].color = RED]

\* The loop of fixupPut followed by t.root.color = BLACK.
\* Result: [t, panic, steps]; panic is the nil dereference grandparent.left,
\* steps lists the cases the loop went through, a rotating case with the
\* rotation it called.
RECURSIVE fixupPut(_, _, _)
fixupPut(t, z, steps) ==
    LET p == t.node[z].parent
        grandparent == t.node[t.node[z].parent].parent
        case1(y) == fixupPutCase1(t, p, y, grandparent)
        \* case 3 on the tree u, where z is zz
        case3(u, zz) == [u EXCEPT !.node[u.node[zz].parent].color = BLACK,
                                  !.node[grandparent].color = RED]
    IN
    IF p = NIL THEN [t |-> RootBlack(t), panic |-> FALSE, steps |-> steps]
    ELSE IF t.node[p].color = BLACK
         THEN [t |-> RootBlack(t), panic |-> FALSE, steps |-> steps]
    ELSE IF grandparent = NIL THEN [t |-> t, panic |-> TRUE, steps |-> steps]
    ELSE IF p = t.node[grandparent].left
    THEN
        IF isRed(t, t.node[grandparent].right)
        THEN fixupPut(case1(t.node[grandparent].right), grandparent,
                      Append(steps, "case 1"))
        ELSE IF z = t.node[p].right
             THEN \* case 2, then case 3
                  fixupPut(RotateRight(case3(RotateLeft(t, p), p), grandparent),
                           p,
                           steps \o <<"case 2 RotateLeft", "case 3 RotateRight">>)
             ELSE fixupPut(RotateRight(case3(t, z), grandparent), z,
                           Append(steps, "case 3 RotateRight"))
    ELSE
        IF isRed(t, t.node[grandparent].left)
        THEN fixupPut(case1(t.node[grandparent].left), grandparent,
                      Append(steps, "case 1"))
        ELSE IF z = t.node[p].left
             THEN \* case 2, then case 3
                  fixupPut(RotateLeft(case3(RotateRight(t, p), p), grandparent),
                           p,
                           steps \o <<"case 2 RotateRight", "case 3 RotateLeft">>)
             ELSE fixupPut(RotateLeft(case3(t, z), grandparent), z,
                           Append(steps, "case 3 RotateLeft"))

\* Mutant of putOverwrite: the payload always goes to the root node.
putOverwriteAtRoot(t, r, data) ==
    [t EXCEPT !.node[t.root].payload = data]

\* Put when the lookup r found the key: the payload is overwritten in place.
putOverwrite(t, r, data) ==
    IF r.parent = NIL
    THEN [t EXCEPT !.node[t.root].payload = data]
    ELSE IF r.dir = LEFT
         THEN [t EXCEPT !.node[t.node[r.parent].left].payload = data]
         ELSE IF r.dir = RIGHT
         THEN [t EXCEPT !.node[t.node[r.parent].right].payload = data]
         ELSE t

\* Mutant of putLink: the new node is linked on the other side of r.parent.
putLinkOtherSide(t, r, key, data, newNode) ==
    IF r.dir = LEFT
    THEN [t EXCEPT !.node = (newNode :> NewNode(key, data, RED, r.parent)) @@ @,
                   !.node[r.parent].right = newNode]
    ELSE IF r.dir = RIGHT
    THEN [t EXCEPT !.node = (newNode :> NewNode(key, data, RED, r.parent)) @@ @,
                   !.node[r.parent].left = newNode]
    ELSE [t EXCEPT !.node = (newNode :> NewNode(key, data, RED, r.parent)) @@ @]

\* Mutant of putLink: the new node is colored Black.
putLinkBlackLeaf(t, r, key, data, newNode) ==
    IF r.dir = LEFT
    THEN [t EXCEPT !.node = (newNode :> NewNode(key, data, BLACK, r.parent)) @@ @,
                   !.node[r.parent].left = newNode]
    ELSE IF r.dir = RIGHT
    THEN [t EXCEPT !.node = (newNode :> NewNode(key, data, BLACK, r.parent)) @@ @,
                   !.node[r.parent].right = newNode]
    ELSE [t EXCEPT !.node = (newNode :> NewNode(key, data, BLACK, r.parent)) @@ @]

\* Put when the lookup r did not find the key: the node newNode is made and
\* linked below r.parent on the side r.dir.
putLink(t, r, key, data, newNode) ==
    IF r.dir = LEFT
    THEN [t EXCEPT !.node = (newNode :> NewNode(key, data, RED, r.parent)) @@ @,
                   !.node[r.parent].left = newNode]
    ELSE IF r.dir = RIGHT
    THEN [t EXCEPT !.node = (newNode :> NewNode(key, data, RED, r.parent)) @@ @,
                   !.node[r.parent].right = newNode]
    ELSE [t EXCEPT !.node = (newNode :> NewNode(key, data, RED, r.parent)) @@ @]

\* Put on the empty tree: t.root = &Node{key: key, color: BLACK}
putRoot(t, key, data, newNode) ==
    [root |-> newNode,
     node |-> (newNode :> NewNode(key, NilPayload, BLACK, NIL))]

\* Put(key, data) with a valid int key.  Result: [t, panic, steps].
Put(t, key, data) ==
    LET after(r) ==
            IF r.found
            THEN [t |-> putOverwrite(t, r, data), panic |-> FALSE, steps |-> <<>>]
            ELSE IF r.parent # NIL
                 THEN fixupPut(putLink(t, r, key, data, NewAddr(t, key)),
                               NewAddr(t, key), <<>>)
                 ELSE [t |-> t, panic |-> FALSE, steps |-> <<>>]
    IN
    IF t.root = NIL
    THEN [t |-> putRoot(t, key, data, NewAddr(t, key)), panic |-> FALSE, steps |-> <<>>]
    ELSE after(internalLookup(t, NIL, t.root, key, NODIR))

----------------------------------------------------------------------------
\* Delete

transplant(t, u, v) ==
    LET s1(a) == IF a.node[u].parent = NIL THEN [a EXCEPT !.root = v]
                 ELSE IF u = a.node[a.node[u].parent].left
                      THEN [a EXCEPT !.node[a.node[u].parent].left = v]
                      ELSE [a EXCEPT !.node[a.node[u].parent].right = v]
        s2(a) == IF v # NIL /\ u # NIL
                 THEN [a EXCEPT !.node[v].parent = a.node[u].parent]
                 ELSE a
    IN  s2(s1(t))

\* One pass through the switch of fixupDelete's loop with x a right child
\* (w is x.parent.left).  Result: [t, x].
fixupDeleteRight(t, x) ==
    LET done(u) == [t |-> u, x |-> u.root]
        case4(u, xx, w) ==
            IF isRed(u, u.node[w].left)
            THEN done(RotateRight(
                     [u EXCEPT !.node[w].color = u.node[u.node[xx].parent].color,
                               !.node[u.node[xx].parent].color = BLACK,
                               !.node[u.node[w].left].color = BLACK],
                     u.node[xx].parent))
            ELSE [t |-> u, x |-> xx]
        \* after case 3: w = x.parent.left
        refresh(u) == case4(u, x, u.node[u.node[x].parent].left)
        cases(u, w) ==
            IF w = NIL THEN [t |-> u, x |-> x]
            ELSE IF ~isRed(u, u.node[w].left) /\ ~isRed(u, u.node[w].right)
                 THEN \* case 2
                      case4([u EXCEPT !.node[w].color = RED], u.node[x].parent, w)
            ELSE IF isRed(u, u.node[w].right) /\ ~isRed(u, u.node[w].left)
                 THEN \* case 3
                      refresh(RotateLeft(
                          [u EXCEPT !.node[u.node[w].right].color = BLACK,
                                    !.node[w].color = RED], w))
            ELSE case4(u, x, w)
        \* after case 1, or without it: w is x.parent.left of the tree then
        sibling(u) == cases(u, u.node[u.node[x].parent].left)
    IN
    IF isRed(t, t.node[t.node[x].parent].left)
    THEN \* case 1
         sibling(RotateRight(
             [t EXCEPT !.node[t.node[t.node[x].parent].left].color = BLACK,
                       !.node[t.node[x].parent].color = RED],
             t.node[x].parent))
    ELSE sibling(t)

\* The mirror image: x is a left child (w is x.parent.right).
fixupDeleteLeft(t, x) ==
    LET done(u) == [t |-> u, x |-> u.root]
        case4(u, xx, w) ==
            IF isRed(u, u.node[w].right)
            THEN done(RotateLeft(
                     [u EXCEPT !.node[w].color = u.node[u.node[xx].parent].color,
                               !.node[u.node[xx].parent].color = BLACK,
                               !.node[u.node[w].right].color = BLACK],
                     u.node[xx].parent))
            ELSE [t |-> u, x |-> xx]
        \* after case 3: w = x.parent.right
        refresh(u) == case4(u, x, u.node[u.node[x].parent].right)
        cases(u, w) ==
            IF w = NIL THEN [t |-> u, x |-> x]
            ELSE IF ~isRed(u, u.node[w].left) /\ ~isRed(u, u.node[w].right)
                 THEN \* case 2
                      case4([u EXCEPT !.node[w].color = RED], u.node[x].parent, w)
            ELSE IF isRed(u, u.node[w].left) /\ ~isRed(u, u.node[w].right)
                 THEN \* case 3
                      refresh(RotateRight(
                          [u EXCEPT !.node[u.node[w].left].color = BLACK,
                                    !.node[w].color = RED], w))
            ELSE case4(u, x, w)
        \* after case 1, or without it: w is x.parent.right of the tree then
        sibling(u) == cases(u, u.node[u.node[x].parent].right)
    IN
    IF isRed(t, t.node[t.node[x].parent].right)
    THEN \* case 1
         sibling(RotateLeft(
             [t EXCEPT !.node[t.node[t.node[x].parent].right].color = BLACK,
                       !.node[t.node[x].parent].color = RED],
             t.node[x].parent))
    ELSE sibling(t)

\* The loop of fixupDelete.  Result: [t, x, loops]; loops: a pass through
\* the loop changed neither the tree nor x, so every later pass is the same
\* and the loop never exits.
RECURSIVE fixupDeleteLoop(_, _)
fixupDeleteLoop(t, x) ==
    LET next(s) == IF s.t = t /\ s.x = x
                   THEN [t |-> t, x |-> x, loops |-> TRUE]
                   ELSE fixupDeleteLoop(s.t, s.x)
    IN
    IF x = t.root THEN [t |-> t, x |-> x, loops |-> FALSE]
    ELSE IF t.node[x].color = RED THEN [t |-> t, x |-> x, loops |-> FALSE]
    ELSE IF x = t.node[t.node[x].parent].right THEN next(fixupDeleteRight(t, x))
    ELSE IF x = t.node[t.node[x].parent].left THEN next(fixupDeleteLeft(t, x))
    ELSE next([t |-> t, x |-> x])

\* A variant that does not return at once on a nil x: it reddens the root.
fixupDeleteNilRecolors(t, x) ==
    IF x = NIL
    THEN [t |-> IF t.root = NIL THEN t
                ELSE [t EXCEPT !.node[t.root].color = RED],
          loops |-> FALSE]
    ELSE LET r == fixupDeleteLoop(t, x) IN
         IF r.loops THEN [t |-> r.t, loops |-> TRUE]
         ELSE [t |-> [r.t EXCEPT !.node[r.x].color = BLACK], loops |-> FALSE]

\* A variant that leaves x's color as the loop left it.
fixupDeleteKeepsColor(t, x) ==
    IF x = NIL THEN [t |-> t, loops |-> FALSE]
    ELSE LET r == fixupDeleteLoop(t, x) IN [t |-> r.t, loops |-> r.loops]

\* Result: [t, loops]
fixupDelete(t, x) ==
    LET exit(r) == IF r.loops THEN [t |-> r.t, loops |-> TRUE]
                   ELSE [t |-> [r.t EXCEPT !.node[r.x].color = BLACK],
                         loops |-> FALSE]
    IN  IF x = NIL THEN [t |-> t, loops |-> FALSE]
        ELSE exit(fixupDeleteLoop(t, x))

\* The node z is unreachable once it is unlinked: its memory is reclaimed.
Unlinked(t, z) == [t EXCEPT !.node = [a \in DOMAIN @ \ {z} |-> @[a]]]

\* Delete from `_, z := t.getNode(key)` on.  Result: [t, loops]
deleteNode(t, z) ==
    LET fixup(yOriginalColor, u, x) ==
            IF yOriginalColor = BLACK THEN fixupDelete(Unlinked(u, z), x)
            ELSE [t |-> Unlinked(u, z), loops |-> FALSE]
        \* the two-children case, y the minimum of z.right
        s1(u, y) == IF t.node[y].parent = z
                    THEN IF u.node[y].right # NIL
                         THEN [u EXCEPT !.node[u.node[y].right].parent = y]
                         ELSE u
                    ELSE u
        s2(u, y) == IF t.node[y].parent = z THEN u
                    ELSE transplant(u, y, u.node[y].right)
        s3(u, y) == IF t.node[y].parent = z THEN u
                    ELSE [u EXCEPT !.node[y].right = u.node[z].right]
        s4(u, y) == IF t.node[y].parent = z THEN u
                    ELSE [u EXCEPT !.node[u.node[y].right].parent = y]
        s5(u, y) == transplant(u, z, y)
        s6(u, y) == [u EXCEPT !.node[y].left = u.node[z].left]
        s7(u, y) == [u EXCEPT !.node[u.node[y].left].parent = y]
        s8(u, y) == [u EXCEPT !.node[y].color = u.node[z].color]
        two(y) == fixup(t.node[y].color,
                        s8(s7(s6(s5(s4(s3(s2(s1(t, y), y), y), y), y), y), y), y),
                        t.node[y].right)
    IN
    IF t.node[z].left = NIL
    THEN \* case (a)
         fixup(t.node[z].color, transplant(t, z, t.node[z].right), t.node[z].right)
    ELSE IF t.node[z].right = NIL
    THEN \* case (b)
         fixup(t.node[z].color, transplant(t, z, t.node[z].left), t.node[z].left)
    ELSE \* case (c) & (d)
         two(getMinimum(t, t.node[z].right))

\* Delete(key).  Result: [t, loops]
Delete(t, key) ==
    IF ~Has(t, key) THEN [t |-> t, loops |-> FALSE]
    ELSE deleteNode(t, getNode(t, key)[2])

----------------------------------------------------------------------------
\* The caller: one goroutine calling Put and Delete on a tree made by NewTree.

Init ==
    /\ root = NIL
    /\ node = <<>>
    /\ status = "ok"
    /\ last = [op |-> "NewTree", key |-> NIL, data |-> NilPayload, found |-> FALSE]
    /\ stored = {}
    /\ lock = Nobody
    /\ logger = Discard
    /\ pc = [g \in Goroutines |-> Idle]

PutCall(key, data) ==
    /\ status = "ok"
    /\ LET r == Put(T, key, data) IN
       /\ root' = r.t.root
       /\ node' = r.t.node
       /\ status' = IF r.panic THEN "panic" ELSE "ok"
    /\ last' = [op |-> "Put", key |-> key, data |-> data, found |-> Has(T, key)]
    /\ stored' = stored \cup {key}
    /\ UNCHANGED pkgvars

DeleteCall(key) ==
    /\ status = "ok"
    /\ LET r == Delete(T, key) IN
       /\ root' = r.t.root
       /\ node' = r.t.node
       /\ status' = IF r.loops THEN "hung" ELSE "ok"
    /\ last' = [op |-> "Delete", key |-> key, data |-> NilPayload, found |-> Has(T, key)]
    /\ stored' = stored \ {key}
    /\ UNCHANGED pkgvars

Next ==
    \/ \E key \in Keys, data \in Payloads : PutCall(key, data)
    \/ \E key \in Keys : DeleteCall(key)

Spec == Init /\ [][Next]_vars

----------------------------------------------------------------------------
\* Observations of a tree value

\* The nodes of the subtree rooted at n
RECURSIVE Subtree(_, _)
Subtree(t, n) ==
    IF n = NIL THEN {}
    ELSE {n} \cup Subtree(t, t.node[n].left) \cup Subtree(t, t.node[n].right)

\* Mutant of Count: the right subtree is not visited.
RECURSIVE CountSkipsRight(_, _)
CountSkipsRight(t, n) ==
    IF n = NIL THEN 0
    ELSE CountSkipsRight(t, t.node[n].left) + 1

\* countingVisitor.Visit
RECURSIVE Count(_, _)
Count(t, n) ==
    IF n = NIL THEN 0
    ELSE Count(t, t.node[n].left) + 1 + Count(t, t.node[n].right)

\* Size
Size(t) == Count(t, t.root)

\* The keys in the order an in-order walk visits them
RECURSIVE Inorder(_, _)
Inorder(t, n) ==
    IF n = NIL THEN <<>>
    ELSE Inorder(t, t.node[n].left) \o <<t.node[n].key>> \o Inorder(t, t.node[n].right)

\* The last call returned: it neither panicked nor is it still running.
Returned == status = "ok"

----------------------------------------------------------------------------
\* Measures of a tree value used by the properties

\* The numbers of Black nodes on the paths from n down to an absent child,
\* the absent child counted as Black
RECURSIVE BlackHeights(_, _)
BlackHeights(t, n) ==
    IF n = NIL THEN {1}
    ELSE { h + (IF t.node[n].color = BLACK THEN 1 ELSE 0) :
             h \in BlackHeights(t, t.node[n].left) \cup BlackHeights(t, t.node[n].right) }

\* The numbers of nodes on the paths from n down to an absent child
RECURSIVE PathLengths(_, _)
PathLengths(t, n) ==
    IF n = NIL THEN {0}
    ELSE { l + 1 :
             l \in PathLengths(t, t.node[n].left) \cup PathLengths(t, t.node[n].right) }

KeysOf(t, n) == { t.node[m].key : m \in Subtree(t, n) }

\* n is a node colored Red
Red(n) == n # NIL /\ node[n].color = RED

StrictlyAscending(seq) == \A i \in 1..(Len(seq) - 1) : seq[i] < seq[i + 1]

\* C1: after any sequence of Put and Delete calls, every node has one
\* black-height: all paths from it down to an absent child hold the same
\* number of Black nodes.
C1_UniformBlackHeight ==
    Returned => \A n \in Subtree(T, root) : Cardinality(BlackHeights(T, n)) = 1

\* C3: after any sequence of Put and Delete calls, no Red node has a Red child.
C3_NoRedRed ==
    Returned => \A n \in Subtree(T, root) :
                    Red(n) => ~Red(node[n].left) /\ ~Red(node[n].right)

\* A Delete of a stored key has returned and left a Red node in a tree of
\* three nodes or more.
C3_Witness ==
    /\ Returned /\ last.op = "Delete" /\ last.found
    /\ Size(T) >= 3
    /\ \E n \in Subtree(T, root) : Red(n)

\* C4: after any sequence of Put and Delete calls the tree is a strict binary
\* search tree under the comparator: at every node the keys of the left
\* subtree compare less and those of the right subtree compare greater, no two
\* nodes hold equal keys, and the in-order walk is strictly ascending.
C4_StrictBST ==
    Returned =>
        /\ \A n \in Subtree(T, root) :
              /\ \A k \in KeysOf(T, node[n].left) : cmp(k, node[n].key) < 0
              /\ \A k \in KeysOf(T, node[n].right) : cmp(k, node[n].key) > 0
        /\ \A m, n \in Subtree(T, root) : m # n => cmp(node[m].key, node[n].key) # 0
        /\ StrictlyAscending(Inorder(T, root))

\* A Delete of a stored key has returned and left a root with two children.
C4_Witness ==
    /\ Returned /\ last.op = "Delete" /\ last.found
    /\ root # NIL /\ node[root].left # NIL /\ node[root].right # NIL
    /\ Size(T) >= 3

\* C5: after any sequence of Put and Delete calls the tree is empty or its
\* root is Black.
C5_RootBlack ==
    Returned => (root = NIL \/ node[root].color = BLACK)

\* A Delete of a stored key has returned and left a Black root with a Red
\* child.
C5_Witness ==
    /\ Returned /\ last.op = "Delete" /\ last.found
    /\ root # NIL /\ node[root].color = BLACK
    /\ (Red(node[root].left) \/ Red(node[root].right))

\* C6: after any sequence of Put and Delete calls no path from the root to an
\* absent child holds more than twice as many nodes as another.
C6_Balanced ==
    Returned => \A a, b \in PathLengths(T, root) : a <= 2 * b

\* C7: Has(k) is true exactly for the keys Put and not Deleted since.
C7_HasRefinesSet ==
    Returned => \A k \in Keys : Has(T, k) <=> k \in stored

\* A Delete of a stored key has returned; that key is gone, two other keys are
\* stored and one more key was never stored or was deleted.
C7_Witness ==
    /\ Returned /\ last.op = "Delete" /\ last.found
    /\ ~Has(T, last.key)
    /\ Cardinality(stored) = 2
    /\ \A k \in stored : Has(T, k)

\* C8: Size() is the number of nodes an in-order walk visits, and the number
\* of distinct keys Put and not Deleted since.
C8_SizeConsistent ==
    Returned => /\ Size(T) = Len(Inorder(T, root))
                /\ Size(T) = Cardinality(stored)

\* A Delete of a stored key has returned and three keys are left.
C8_Witness ==
    /\ Returned /\ last.op = "Delete" /\ last.found
    /\ Size(T) = 3
    /\ Cardinality(stored) = 3

\* C2: Put(k, p) and then Get(k) returns (true, p), in every tree state
\* reachable by Put and Delete, the empty tree included.
C2_RoundTrip ==
    (Returned /\ last.op = "Put") => Get(T, last.key) = <<TRUE, last.data>>

\* C9: Put(k, p2) on a tree that stores k replaces the payload of that node
\* and nothing else: Get(k) returns (true, p2); the size, the root, the
\* links, the colors, the keys and the other payloads stay as they were.
C9_Overwrite ==
    [][ (last'.op = "Put" /\ last'.found) =>
           /\ status' = "ok"
           /\ Get(T', last'.key) = <<TRUE, last'.data>>
           /\ Size(T') = Size(T)
           /\ root' = root
           /\ DOMAIN node' = DOMAIN node
           /\ \A n \in DOMAIN node :
                 node'[n] = IF node[n].key = last'.key
                            THEN [node[n] EXCEPT !.payload = last'.data]
                            ELSE node[n]
      ]_vars

\* A Put has just overwritten the payload of a key stored below the root of a
\* tree of three nodes or more.
C9_Witness ==
    /\ Returned /\ last.op = "Put" /\ last.found
    /\ Size(T) >= 3
    /\ node[root].key # last.key
    /\ Get(T, last.key) = <<TRUE, last.data>>

\* C10: Delete(k) of a stored key removes that entry and no other: afterwards
\* Has(k) is false, Size() is one less, and Get(j) of every other stored key
\* returns what it returned before.
C10_DeleteRemovesExactly ==
    [][ (last'.op = "Delete" /\ last'.found) =>
           /\ ~Has(T', last'.key)
           /\ Size(T') = Size(T) - 1
           /\ \A j \in Keys \ {last'.key} :
                 Has(T, j) => /\ Get(T', j) = Get(T, j)
                              /\ Get(T', j)[1]
      ]_vars

\* A Delete has just removed a key of a tree that held three keys or more,
\* and returned.
C10_Witness ==
    /\ Returned /\ last.op = "Delete" /\ last.found
    /\ Size(T) >= 2
    /\ ~Has(T, last.key)

----------------------------------------------------------------------------
\* Keys of any kind.  A key is an interface{}: the model keeps the
\* reflect.Kind of its dynamic value and the value itself where the code can
\* read it (the int of a key of kind Int, the address of a pointer).

ErrorKeyIsNil == "The literal nil not allowed as keys"
ErrorKeyDisallowed == "Disallowed key type"
\* The nil error
NoError == "nil error"

\* The kinds the switch of mustBeValidKey names, and the other kinds of
\* package reflect.
DisallowedKinds == {"Chan", "Func", "Interface", "Map", "Ptr", "Slice"}
OtherKinds ==
    {"Bool", "Int", "Int8", "Int16", "Int32", "Int64", "Uint", "Uint8",
     "Uint16", "Uint32", "Uint64", "Uintptr", "Float32", "Float64",
     "Complex64", "Complex128", "Array", "String", "Struct", "UnsafePointer"}

\* The nil interface{}: no dynamic value.
NilKey == [kind |-> "Invalid", val |-> NIL]
\* An int key.
IntKey(i) == [kind |-> "Int", val |-> i]
\* A typed nil pointer (var k *Key), and non-nil values of the kinds that
\* mustBeValidKey names.
NilPtrKey == [kind |-> "Ptr", val |-> NIL]
InvalidKeys ==
    {NilKey, NilPtrKey} \cup { [kind |-> k, val |-> 1] : k \in DisallowedKinds }

\* Mutant of mustBeValidKey: pointers are let through (the source's @TODO).
mustBeValidKeyAllowsPtr(key) ==
    IF key = NilKey THEN ErrorKeyIsNil
    ELSE IF key.kind \in DisallowedKinds \ {"Ptr"} THEN ErrorKeyDisallowed
    ELSE NoError

mustBeValidKey(key) ==
    IF key = NilKey THEN ErrorKeyIsNil
    ELSE IF key.kind \in DisallowedKinds THEN ErrorKeyDisallowed
    ELSE NoError

\* The number of calls of Tree.cmp that internalLookup(_, this, key, _) makes:
\* the switch evaluates its cases in order until one holds.
RECURSIVE cmpCalls(_, _, _)
cmpCalls(t, this, key) ==
    IF this = NIL THEN 0
    ELSE IF cmp(key, t.node[this].key) = 0 THEN 1
    ELSE IF cmp(key, t.node[this].key) < 0
         THEN 2 + cmpCalls(t, t.node[this].left, key)
    ELSE 3 + cmpCalls(t, t.node[this].right, key)

\* The methods of Tree on a key of any kind: the check of the key, and then
\* the method as modelled above on a key of kind Int.  Each result carries
\* the number of comparator calls the method made.

\* Put.  Result: [t, panic, err]
PutKey(t, key, data) ==
    IF mustBeValidKey(key) # NoError
    THEN [t |-> t, panic |-> FALSE, err |-> mustBeValidKey(key)]
    ELSE [t |-> Put(t, key.val, data).t,
          panic |-> Put(t, key.val, data).panic,
          err |-> NoError]

\* Mutant of GetParentKey: the key is not checked.
GetParentKeyUnchecked(t, key) ==
    [found |-> GetParent(t, key.val).found,
     parent |-> GetParent(t, key.val).parent,
     dir |-> GetParent(t, key.val).dir,
     cmps |-> IF t.root = NIL THEN 0 ELSE cmpCalls(t, t.root, key.val)]

\* Mutant of GetParentKey: LEFT is reported for RIGHT and RIGHT for LEFT.
GetParentKeySwapsDir(t, key) ==
    IF mustBeValidKey(key) # NoError
    THEN [found |-> FALSE, parent |-> NIL, dir |-> NODIR, cmps |-> 0]
    ELSE [found |-> GetParent(t, key.val).found,
          parent |-> GetParent(t, key.val).parent,
          dir |-> IF GetParent(t, key.val).dir = LEFT THEN RIGHT
                  ELSE IF GetParent(t, key.val).dir = RIGHT THEN LEFT
                  ELSE NODIR,
          cmps |-> IF t.root = NIL THEN 0 ELSE cmpCalls(t, t.root, key.val)]

\* GetParent.  Result: [found, parent, dir, cmps]
GetParentKey(t, key) ==
    IF mustBeValidKey(key) # NoError
    THEN [found |-> FALSE, parent |-> NIL, dir |-> NODIR, cmps |-> 0]
    ELSE [found |-> GetParent(t, key.val).found,
          parent |-> GetParent(t, key.val).parent,
          dir |-> GetParent(t, key.val).dir,
          cmps |-> IF t.root = NIL THEN 0 ELSE cmpCalls(t, t.root, key.val)]

\* Get.  Result: [found, payload, cmps]
GetKey(t, key) ==
    IF mustBeValidKey(key) # NoError
    THEN [found |-> FALSE, payload |-> NilPayload, cmps |-> 0]
    ELSE [found |-> Get(t, key.val)[1],
          payload |-> Get(t, key.val)[2],
          cmps |-> IF t.root = NIL THEN 0 ELSE cmpCalls(t, t.root, key.val)]

\* Has.  Result: [found, cmps]
HasKey(t, key) ==
    IF mustBeValidKey(key) # NoError
    THEN [found |-> FALSE, cmps |-> 0]
    ELSE [found |-> Has(t, key.val), cmps |-> cmpCalls(t, t.root, key.val)]

\* Mutant of DeleteKey: a key that Has does not find takes the root away.
DeleteKeyUnchecked(t, key) ==
    IF ~HasKey(t, key).found
    THEN IF t.root = NIL THEN [t |-> t, loops |-> FALSE]
         ELSE deleteNode(t, t.root)
    ELSE Delete(t, key.val)

\* Delete.  Result: [t, loops]
DeleteKey(t, key) ==
    IF ~HasKey(t, key).found THEN [t |-> t, loops |-> FALSE]
    ELSE Delete(t, key.val)

\* InorderVisitor.Visit: the buffer as the sequence of strings written to
\* it.  Every key is written between a "." or a parenthesis on either side,
\* so the sequence and the concatenated string determine each other.
RECURSIVE InorderVisitor(_, _)
InorderVisitor(t, n) ==
    IF n = NIL THEN <<".">>
    ELSE <<"(">> \o InorderVisitor(t, t.node[n].left)
              \o <<ToString(t.node[n].key)>>
              \o InorderVisitor(t, t.node[n].right) \o <<")">>

\* The in-order fingerprint of a tree
Fingerprint(t) == InorderVisitor(t, t.root)

----------------------------------------------------------------------------
\* A caller that passes keys of any kind: one goroutine calling Put, Delete,
\* Get, Has and GetParent on a tree made by NewTree, with int keys and with
\* the keys that mustBeValidKey turns away.

ApiKeys == { IntKey(i) : i \in Keys } \cup InvalidKeys
KeyPayloads == {"p1"}

PutKeyCall(key, data) ==
    /\ status = "ok"
    /\ LET r == PutKey(T, key, data) IN
       /\ root' = r.t.root
       /\ node' = r.t.node
       /\ status' = IF r.panic THEN "panic" ELSE "ok"
       /\ last' = [op |-> "PutKey", key |-> key, data |-> data, err |-> r.err]
    /\ stored' = IF key.kind = "Int" THEN stored \cup {key.val} ELSE stored
    /\ UNCHANGED pkgvars

DeleteKeyCall(key) ==
    /\ status = "ok"
    /\ LET r == DeleteKey(T, key) IN
       /\ root' = r.t.root
       /\ node' = r.t.node
       /\ status' = IF r.loops THEN "hung" ELSE "ok"
    /\ last' = [op |-> "DeleteKey", key |-> key]
    /\ stored' = IF key.kind = "Int" THEN stored \ {key.val} ELSE stored
    /\ UNCHANGED pkgvars

\* Get, Has and GetParent assign to no field of the tree or of a node.
GetKeyCall(key) ==
    /\ status = "ok"
    /\ last' = [op |-> "GetKey", key |-> key, res |-> GetKey(T, key)]
    /\ UNCHANGED <<root, node, status, stored>>
    /\ UNCHANGED pkgvars

HasKeyCall(key) ==
    /\ status = "ok"
    /\ last' = [op |-> "HasKey", key |-> key, res |-> HasKey(T, key)]
    /\ UNCHANGED <<root, node, status, stored>>
    /\ UNCHANGED pkgvars

GetParentKeyCall(key) ==
    /\ status = "ok"
    /\ last' = [op |-> "GetParentKey", key |-> key, res |-> GetParentKey(T, key)]
    /\ UNCHANGED <<root, node, status, stored>>
    /\ UNCHANGED pkgvars

NextKeys ==
    \/ \E key \in ApiKeys, data \in KeyPayloads : PutKeyCall(key, data)
    \/ \E key \in ApiKeys : DeleteKeyCall(key)
    \/ \E key \in ApiKeys : GetKeyCall(key)
    \/ \E key \in ApiKeys : HasKeyCall(key)
    \/ \E key \in ApiKeys : GetParentKeyCall(key)

SpecKeys == Init /\ [][NextKeys]_vars

\* Some node of the tree holds the key.
KeyStored(t, key) == key.kind = "Int" /\ key.val \in KeysOf(t, t.root)

\* C11: Delete(k) of a key that no node holds (the tree may be empty, the key
\* may be nil or of a disallowed kind) returns and changes nothing: the root,
\* every node with its links, color and payload, the in-order fingerprint and
\* Size() are what they were before the call.
C11_DeleteAbsentChangesNothing ==
    [][ (last'.op = "DeleteKey" /\ ~KeyStored(T, last'.key)) =>
           /\ status' = "ok"
           /\ root' = root
           /\ node' = node
           /\ Fingerprint(T') = Fingerprint(T)
           /\ Size(T') = Size(T)
           /\ \A n \in Subtree(T, root) :
                 /\ node'[n].color = node[n].color
                 /\ node'[n].payload = node[n].payload
      ]_vars

\* A Delete of an int key that no node holds has returned on a tree of three
\* nodes.
C11_Witness ==
    /\ Returned /\ last.op = "DeleteKey"
    /\ last.key.kind = "Int" /\ ~KeyStored(T, last.key)
    /\ Size(T) = 3

\* C12: Put checks the key before it touches the tree.  The nil key gives
\* ErrorKeyIsNil; a key of kind Chan, Func, Interface, Map, Ptr (a nil pointer
\* too) or Slice gives ErrorKeyDisallowed; a key of any other kind gives no
\* error; and a Put that gives an error returns with the root, the nodes
\* (shape, colors, payloads) and the size as they were.
C12_PutInvalidKey ==
    [][ last'.op = "PutKey" =>
           /\ last'.err =
                 IF last'.key = NilKey THEN ErrorKeyIsNil
                 ELSE IF last'.key.kind \in
                           {"Chan", "Func", "Interface", "Map", "Ptr", "Slice"}
                      THEN ErrorKeyDisallowed
                 ELSE NoError
           /\ \A k \in OtherKinds : mustBeValidKey([kind |-> k, val |-> 1]) = NoError
           /\ last'.err # NoError =>
                 /\ status' = "ok"
                 /\ root' = root
                 /\ node' = node
                 /\ Size(T') = Size(T)
      ]_vars

\* A Put with a nil pointer as key has returned ErrorKeyDisallowed on a tree
\* of three nodes.
C12_Witness ==
    /\ Returned /\ last.op = "PutKey"
    /\ last.key = NilPtrKey /\ last.err = ErrorKeyDisallowed
    /\ Size(T) = 3

\* C13: a query with the nil key or a key of a disallowed kind reports "not
\* found" and no error, in every tree state: Get returns (false, nil), Has
\* returns false, GetParent returns (false, nil, NODIR); the comparator is
\* not called and the tree is left as it was.
C13_QueriesOnInvalidKeys ==
    [][ ( /\ last'.op \in {"GetKey", "HasKey", "GetParentKey"}
          /\ \/ last'.key = NilKey
             \/ last'.key.kind \in
                   {"Chan", "Func", "Interface", "Map", "Ptr", "Slice"} ) =>
           /\ last'.op = "GetKey" =>
                 last'.res = [found |-> FALSE, payload |-> NilPayload, cmps |-> 0]
           /\ last'.op = "HasKey" =>
                 last'.res = [found |-> FALSE, cmps |-> 0]
           /\ last'.op = "GetParentKey" =>
                 last'.res = [found |-> FALSE, parent |-> NIL, dir |-> NODIR,
                              cmps |-> 0]
           /\ status' = "ok"
           /\ root' = root
           /\ node' = node
      ]_vars

\* GetParent with the nil key has returned on a tree of three nodes.
C13_Witness ==
    /\ Returned /\ last.op = "GetParentKey"
    /\ last.key = NilKey /\ ~last.res.found
    /\ Size(T) = 3

----------------------------------------------------------------------------
\* A caller that also rotates: one goroutine calling Put, Delete and the
\* public RotateLeft and RotateRight on a tree made by NewTree.  A rotation
\* is called with nil or with a node of the tree (GetParent hands out nodes).

RotateLeftCall(x) ==
    /\ status = "ok"
    /\ LET r == RotateLeft(T, x) IN
       /\ root' = r.root
       /\ node' = r.node
    /\ last' = [op |-> "RotateLeft", x |-> x,
                applies |-> (x # NIL /\ node[x].right # NIL)]
    /\ UNCHANGED <<status, stored>>
    /\ UNCHANGED pkgvars

RotateRightCall(y) ==
    /\ status = "ok"
    /\ LET r == RotateRight(T, y) IN
       /\ root' = r.root
       /\ node' = r.node
    /\ last' = [op |-> "RotateRight", x |-> y,
                applies |-> (y # NIL /\ node[y].left # NIL)]
    /\ UNCHANGED <<status, stored>>
    /\ UNCHANGED pkgvars

NextRot ==
    \/ \E key \in Keys, data \in KeyPayloads : PutCall(key, data)
    \/ \E key \in Keys : DeleteCall(key)
    \/ \E x \in DOMAIN node \cup {NIL} : RotateLeftCall(x)
    \/ \E y \in DOMAIN node \cup {NIL} : RotateRightCall(y)

SpecRot == Init /\ [][NextRot]_vars

\* C14: after every Put, Delete, RotateLeft or RotateRight that returns, the
\* links agree: the root has no parent, and every left or right child of a
\* node reachable from the root has that node as its parent.
C14_LinksConsistent ==
    Returned =>
       /\ root # NIL => node[root].parent = NIL
       /\ \A n \in Subtree(T, root) :
             /\ node[n].left # NIL => node[node[n].left].parent = n
             /\ node[n].right # NIL => node[node[n].right].parent = n

\* A RotateLeft has moved the left subtree of y under x, in a tree that Put
\* and Delete built.
C14_Witness ==
    /\ Returned /\ last.op = "RotateLeft" /\ last.applies
    /\ node[last.x].right # NIL
    /\ node[node[last.x].right].parent = last.x

\* C15: rotations undo each other.  When x has a right child y, RotateLeft(x)
\* followed by RotateRight(y), y being the pivot that took x's place, gives
\* back the tree as it was: root, links, and so the in-order fingerprint.
\* When y has a left child x, RotateRight(y) followed by RotateLeft(x) does.
C15_RotationInverse ==
    [][ /\ ( /\ last'.op = "RotateLeft"
             /\ last'.x # NIL
             /\ node[last'.x].right # NIL ) =>
              LET back == RotateRight(T', node[last'.x].right) IN
              /\ back = T
              /\ Fingerprint(back) = Fingerprint(T)
        /\ ( /\ last'.op = "RotateRight"
             /\ last'.x # NIL
             /\ node[last'.x].left # NIL ) =>
              LET back == RotateLeft(T', node[last'.x].left) IN
              /\ back = T
              /\ Fingerprint(back) = Fingerprint(T)
      ]_vars

\* A RotateLeft of the root has made the root's right child the root, in a
\* tree of three nodes or more.
C15_Witness ==
    /\ Returned /\ last.op = "RotateLeft" /\ last.applies
    /\ root # NIL /\ node[root].left = last.x
    /\ Size(T) >= 3

\* The (key, payload) pairs a tree stores
Pairs(t) == { <<t.node[n].key, t.node[n].payload>> : n \in Subtree(t, t.root) }

\* C16: RotateLeft and RotateRight, on nil or on any node of the tree, keep
\* the sequence of keys of an in-order walk and the set of stored
\* (key, payload) pairs.
C16_RotationKeepsOrder ==
    [][ last'.op \in {"RotateLeft", "RotateRight"} =>
           /\ Inorder(T', root') = Inorder(T, root)
           /\ Pairs(T') = Pairs(T)
      ]_vars

\* A RotateRight has rotated a node below the root of a tree of four nodes.
C16_Witness ==
    /\ Returned /\ last.op = "RotateRight" /\ last.applies
    /\ last.x # root /\ node[last.x].parent # root
    /\ Size(T) >= 4

\* C17: RotateLeft(x) with x nil or x.right nil, and RotateRight(y) with
\* y nil or y.left nil, return and leave the tree as it was; the empty tree
\* (nil root) and the tree of one node are such cases.
C17_RotationNoOp ==
    [][ ( \/ /\ last'.op = "RotateLeft"
             /\ (last'.x = NIL \/ node[last'.x].right = NIL)
          \/ /\ last'.op = "RotateRight"
             /\ (last'.x = NIL \/ node[last'.x].left = NIL) ) =>
           /\ status' = "ok"
           /\ root' = root
           /\ node' = node
      ]_vars

\* A RotateLeft of the root of a one-node tree has returned.
C17_Witness ==
    /\ Returned /\ last.op = "RotateLeft" /\ ~last.applies
    /\ last.x # NIL /\ last.x = root
    /\ Size(T) = 1

\* C18: after any sequence of Put, Delete, RotateLeft and RotateRight calls
\* that returned, the tree is empty or its root is Black.
C18_RootBlackWithRotations ==
    Returned => ~Red(root)

----------------------------------------------------------------------------
\* The caller of Spec with one key more: the deletion fixup meets a Black node
\* without a sibling only in trees built from five keys or more.

MoreKeys == 1..(MaxKey + 1)

NextMoreKeys ==
    \/ \E key \in MoreKeys, data \in KeyPayloads : PutCall(key, data)
    \/ \E key \in MoreKeys : DeleteCall(key)

SpecMoreKeys == Init /\ [][NextMoreKeys]_vars

\* C19: every Delete call returns, on every tree that Put and Delete calls
\* build: the loop of fixupDelete always comes to its end.
C19_DeleteReturns ==
    status # "hung"

\* C20: GetParent(k) with an int key.  On the empty tree it returns
\* (false, nil, NODIR); when the root holds k it returns (true, nil, NODIR);
\* when a node n other than the root holds k it returns (true, p, d) with p
\* the parent of n, d LEFT or RIGHT, and n the child of p on side d.
\* (GetParent assigns nothing, so the tree of the state is the tree the call
\* was made on.)
C20_GetParentResult ==
    (last.op = "GetParentKey" /\ last.key.kind = "Int") =>
       LET k == last.key.val
           res == last.res
       IN
       /\ root = NIL =>
             /\ ~res.found /\ res.parent = NIL /\ res.dir = NODIR
       /\ (root # NIL /\ node[root].key = k) =>
             /\ res.found /\ res.parent = NIL /\ res.dir = NODIR
       /\ \A n \in Subtree(T, root) \ {root} :
             node[n].key = k =>
                /\ res.found
                /\ res.parent = node[n].parent
                /\ res.dir \in {LEFT, RIGHT}
                /\ res.dir = LEFT => node[res.parent].left = n
                /\ res.dir = RIGHT => node[res.parent].right = n

\* GetParent has found a key in the right child of a node that is not the
\* root.
C20_Witness ==
    /\ Returned /\ last.op = "GetParentKey" /\ last.key.kind = "Int"
    /\ last.res.found /\ last.res.dir = RIGHT
    /\ last.res.parent # NIL /\ last.res.parent # root
    /\ node[node[last.res.parent].right].key = last.key.val

----------------------------------------------------------------------------
\* The caller of the tests' fixtures: Puts with int keys 1..9 on a tree made
\* by NewTree, any keys for the first ScriptLen calls, and the sorted runs of
\* TestWorstCases (keys going up by one, keys going down by one) to any
\* length.  last.script is the sequence of keys put so far, last.steps the
\* cases that fixupPut went through in those calls.

ScriptMaxKey == 9
ScriptKeys == 1..ScriptMaxKey
ScriptLen == 3

Script == IF last.op = "ScriptPut" THEN last.script ELSE <<>>
ScriptSteps == IF last.op = "ScriptPut" THEN last.steps ELSE <<>>

Ascending(s) == \A i \in 1..(Len(s) - 1) : s[i + 1] = s[i] + 1
Descending(s) == \A i \in 1..(Len(s) - 1) : s[i + 1] = s[i] - 1

ScriptPutCall(key, data) ==
    /\ status = "ok"
    /\ \/ Len(Script) < ScriptLen
       \/ Ascending(Append(Script, key))
       \/ Descending(Append(Script, key))
    /\ LET r == Put(T, key, data) IN
       /\ root' = r.t.root
       /\ node' = r.t.node
       /\ status' = IF r.panic THEN "panic" ELSE "ok"
       /\ last' = [op |-> "ScriptPut", key |-> key, data |-> data,
                   script |-> Append(Script, key),
                   steps |-> ScriptSteps \o r.steps]
    /\ stored' = stored \cup {key}
    /\ UNCHANGED pkgvars

NextScript ==
    \E key \in ScriptKeys, data \in KeyPayloads : ScriptPutCall(key, data)

SpecScript == Init /\ [][NextScript]_vars

\* bytes.Buffer.String: the writes, joined.
RECURSIVE BufferString(_)
BufferString(writes) ==
    IF writes = <<>> THEN ""
    ELSE Head(writes) \o BufferString(Tail(writes))

\* InorderVisitor.String after Walk
FingerprintString(t) == BufferString(Fingerprint(t))

\* The rotations among the steps of fixupPut, in order
Rotations(steps) ==
    SelectSeq(steps, LAMBDA c : c # "case 1")

\* C21: Put(7), Put(3), Put(1) on the empty tree of NewTree give the
\* fingerprint ((.1.)3(.7.)), the root key 3 and Size() 3, and the three
\* calls together rotate once, to the right.
C21_Put731 ==
    (Returned /\ Script = <<7, 3, 1>>) =>
       /\ FingerprintString(T) = "((.1.)3(.7.))"
       /\ node[root].key = 3
       /\ Size(T) = 3
       /\ Rotations(ScriptSteps) = <<"case 3 RotateRight">>

\* Put(7), Put(3), Put(1) have returned.
C21_Witness ==
    /\ Returned /\ Script = <<7, 3, 1>>
    /\ KeysOf(T, root) = {1, 3, 7}

\* C22: Put of the keys 1, 2, ..., 9 in this order on the empty tree of
\* NewTree gives the root key 4 and the fingerprint
\* (((.1.)2(.3.))4((.5.)6((.7.)8(.9.)))).
C22_AscendingPuts ==
    (Returned /\ Script = <<1, 2, 3, 4, 5, 6, 7, 8, 9>>) =>
       /\ node[root].key = 4
       /\ FingerprintString(T) = "(((.1.)2(.3.))4((.5.)6((.7.)8(.9.))))"

\* The nine Puts in ascending order have returned.
C22_Witness ==
    /\ Returned /\ Script = <<1, 2, 3, 4, 5, 6, 7, 8, 9>>
    /\ Size(T) = 9

\* C23: Put of the keys 9, 8, ..., 1 in this order on the empty tree of
\* NewTree gives the root key 6 and the fingerprint
\* ((((.1.)2(.3.))4(.5.))6((.7.)8(.9.))).
C23_DescendingPuts ==
    (Returned /\ Script = <<9, 8, 7, 6, 5, 4, 3, 2, 1>>) =>
       /\ node[root].key = 6
       /\ FingerprintString(T) = "((((.1.)2(.3.))4(.5.))6((.7.)8(.9.)))"

\* The nine Puts in descending order have returned.
C23_Witness ==
    /\ Returned /\ Script = <<9, 8, 7, 6, 5, 4, 3, 2, 1>>
    /\ Size(T) = 9

----------------------------------------------------------------------------
\* A caller of the comparator: IntComparator on pairs of ints, as in
\* TestIntComparator.

CmpMax == 5
CmpInts == (-CmpMax)..CmpMax

IntComparatorCall(o1, o2) ==
    /\ last' = [op |-> "IntComparator", o1 |-> o1, o2 |-> o2,
                res |-> IntComparator(o1, o2)]
    /\ UNCHANGED <<root, node, status, stored>>
    /\ UNCHANGED pkgvars

NextCmp == \E o1 \in CmpInts, o2 \in CmpInts : IntComparatorCall(o1, o2)

SpecCmp == Init /\ [][NextCmp]_vars

\* C24: IntComparator(a, b) is -1 when a < b, 0 when a = b and 1 when
\* a > b, and nothing else; so it is antisymmetric,
\* IntComparator(a, b) = -IntComparator(b, a), and transitive.
C24_IntComparatorOrder ==
    last.op = "IntComparator" =>
       LET a == last.o1
           b == last.o2
       IN
       /\ last.res \in {-1, 0, 1}
       /\ last.res = -1 <=> a < b
       /\ last.res = 0 <=> a = b
       /\ last.res = 1 <=> a > b
       /\ last.res = -IntComparator(b, a)
       /\ \A c \in CmpInts :
             /\ (last.res < 0 /\ IntComparator(b, c) < 0) => IntComparator(a, c) < 0
             /\ (last.res <= 0 /\ IntComparator(b, c) <= 0) => IntComparator(a, c) <= 0

\* IntComparator has compared a negative int with a greater positive one.
C24_Witness ==
    /\ last.op = "IntComparator"
    /\ last.o1 < 0 /\ last.o2 > 1
    /\ last.res = -1

----------------------------------------------------------------------------
\* The red-black invariants as predicates of a tree value

IsBST(t) ==
    /\ \A n \in Subtree(t, t.root) :
          /\ \A k \in KeysOf(t, t.node[n].left) : cmp(k, t.node[n].key) < 0
          /\ \A k \in KeysOf(t, t.node[n].right) : cmp(k, t.node[n].key) > 0
    /\ StrictlyAscending(Inorder(t, t.root))

RootIsBlack(t) == t.root = NIL \/ t.node[t.root].color = BLACK

RedIn(t, n) == n # NIL /\ t.node[n].color = RED

NoRedWithRedChild(t) ==
    \A n \in Subtree(t, t.root) :
       RedIn(t, n) => ~RedIn(t, t.node[n].left) /\ ~RedIn(t, t.node[n].right)

OneBlackHeight(t) ==
    \A n \in Subtree(t, t.root) : Cardinality(BlackHeights(t, n)) = 1

RedBlackTree(t) ==
    /\ IsBST(t)
    /\ RootIsBlack(t)
    /\ NoRedWithRedChild(t)
    /\ OneBlackHeight(t)

----------------------------------------------------------------------------
\* A caller that only inserts: Put with int keys on a tree made by NewTree.

\* Without Delete the trees stay few, so this caller has three keys more.
PutOnlyKeys == 1..(MaxKey + 3)

NextPut ==
    \E key \in PutOnlyKeys, data \in KeyPayloads : PutCall(key, data)

SpecPut == Init /\ [][NextPut]_vars

\* C25: after any sequence of Put calls on the empty tree, and nothing else,
\* every Put has returned and the tree is a binary search tree with a Black
\* root, no Red node with a Red child, and one black-height per node.
C25_PutRestoresInvariants ==
    /\ Returned
    /\ RedBlackTree(T)

\* A Put of a new key has returned on a tree that now holds seven keys, some
\* of them in Red nodes.
C25_Witness ==
    /\ Returned /\ last.op = "Put" /\ ~last.found
    /\ Size(T) >= 7
    /\ \E n \in Subtree(T, root) : RedIn(T, n)

\* C26: in a Put on any tree that Put, Delete, RotateLeft and RotateRight
\* calls produced, whenever z.parent is Red in the loop of fixupPut,
\* z.parent.parent is a node: no Put dereferences a nil grandparent.
C26_GrandparentExists ==
    status # "panic"

----------------------------------------------------------------------------
\* A caller of Put and Delete whose Delete calls are recorded with the local
\* variables of Delete: z, y, x and yOriginalColor as they stand when
\* fixupDelete is (or is not) called, and with whether the tree Delete was
\* called on satisfied the four red-black invariants.

\* y: z, or the minimum of z.right when z has two children
deleteY(t, z) ==
    IF t.node[z].left = NIL THEN z
    ELSE IF t.node[z].right = NIL THEN z
    ELSE getMinimum(t, t.node[z].right)

\* x: the node that takes y's place, or nil
deleteX(t, z) ==
    IF t.node[z].left = NIL THEN t.node[z].right
    ELSE IF t.node[z].right = NIL THEN t.node[z].left
    ELSE t.node[deleteY(t, z)].right

yOriginalColor(t, z) == t.node[deleteY(t, z)].color

DeleteTracedCall(key) ==
    /\ status = "ok"
    /\ LET r == Delete(T, key) IN
       /\ root' = r.t.root
       /\ node' = r.t.node
       /\ status' = IF r.loops THEN "hung" ELSE "ok"
    /\ last' = IF Has(T, key)
               THEN LET z == getNode(T, key)[2] IN
                    [op |-> "DeleteTraced", key |-> key, found |-> TRUE,
                     z |-> z, y |-> deleteY(T, z), x |-> deleteX(T, z),
                     yOriginalColor |-> yOriginalColor(T, z),
                     valid |-> RedBlackTree(T)]
               ELSE [op |-> "DeleteTraced", key |-> key, found |-> FALSE]
    /\ stored' = stored \ {key}
    /\ UNCHANGED pkgvars

NextDel ==
    \/ \E key \in MoreKeys, data \in KeyPayloads : PutCall(key, data)
    \/ \E key \in MoreKeys : DeleteTracedCall(key)

SpecDel == Init /\ [][NextDel]_vars

\* The tree that the structural removal of z leaves, stated node by node:
\* r is the node that takes z's position (the single child, or the in-order
\* successor y when z has two children) and x the node that takes y's.
NodeOf(t, k) == CHOOSE n \in Subtree(t, t.root) : t.node[n].key = k

Successor(t, z) ==
    CHOOSE m \in Subtree(t, t.node[z].right) :
        \A o \in Subtree(t, t.node[z].right) : t.node[m].key <= t.node[o].key

TwoChildren(t, z) == t.node[z].left # NIL /\ t.node[z].right # NIL

Vacated(t, z) == IF TwoChildren(t, z) THEN Successor(t, z) ELSE z

Replacement(t, z) ==
    IF TwoChildren(t, z) THEN t.node[Successor(t, z)].right
    ELSE IF t.node[z].left # NIL THEN t.node[z].left
    ELSE t.node[z].right

Spliced(t, z) ==
    LET two == TwoChildren(t, z)
        y == Vacated(t, z)
        x == Replacement(t, z)
        r == IF two THEN y ELSE x
        zp == t.node[z].parent
        far == two /\ y # t.node[z].right
        parentOf(n) ==
            IF n = r THEN zp
            ELSE IF two /\ n \in {t.node[z].left, t.node[z].right} THEN y
            ELSE IF far /\ n = x THEN t.node[y].parent
            ELSE t.node[n].parent
        leftOf(n) ==
            IF n = zp /\ t.node[zp].left = z THEN r
            ELSE IF two /\ n = y THEN t.node[z].left
            ELSE IF far /\ n = t.node[y].parent THEN x
            ELSE t.node[n].left
        rightOf(n) ==
            IF n = zp /\ t.node[zp].right = z THEN r
            ELSE IF far /\ n = y THEN t.node[z].right
            ELSE t.node[n].right
        colorOf(n) == IF two /\ n = y THEN t.node[z].color ELSE t.node[n].color
    IN  [root |-> IF t.root = z THEN r ELSE t.root,
         node |-> [n \in DOMAIN t.node \ {z} |->
                     [key |-> t.node[n].key, payload |-> t.node[n].payload,
                      color |-> colorOf(n), left |-> leftOf(n),
                      right |-> rightOf(n), parent |-> parentOf(n)]]]

\* C27: when Delete removes a Black node whose place no node takes (x is
\* nil), fixupDelete returns at once: the tree after Delete is exactly the
\* tree the structural removal left, no node recolored and no link rotated.
C27_FixupDeleteNilReturns ==
    [][(/\ last'.op = "DeleteTraced" /\ last'.found
        /\ node[Vacated(T, NodeOf(T, last'.key))].color = BLACK
        /\ Replacement(T, NodeOf(T, last'.key)) = NIL)
       => /\ status' = "ok"
          /\ [root |-> root', node |-> node'] = Spliced(T, NodeOf(T, last'.key))]_vars

C27_Witness ==
    /\ Returned /\ last.op = "DeleteTraced" /\ last.found
    /\ last.x = NIL /\ last.yOriginalColor = BLACK
    /\ last.y # last.z
    /\ Size(T) >= 2

\* C28: on a tree that satisfies the four red-black invariants, whenever
\* Delete calls fixupDelete with an x that is not nil, x is the root or Red
\* on entry, so no sibling case runs: the tree after Delete is the tree of
\* the structural removal with x colored Black and nothing else changed.
C28_FixupDeleteOnlyColorsX ==
    [][(/\ last'.op = "DeleteTraced" /\ last'.found
        /\ RedBlackTree(T)
        /\ node[Vacated(T, NodeOf(T, last'.key))].color = BLACK
        /\ Replacement(T, NodeOf(T, last'.key)) # NIL)
       => LET s == Spliced(T, NodeOf(T, last'.key))
              x == Replacement(T, NodeOf(T, last'.key))
          IN  /\ s.root = x \/ s.node[x].color = RED
              /\ status' = "ok"
              /\ [root |-> root', node |-> node']
                    = [s EXCEPT !.node[x].color = BLACK]]_vars

C28_Witness ==
    /\ Returned /\ last.op = "DeleteTraced" /\ last.found
    /\ last.valid
    /\ last.x # NIL /\ last.yOriginalColor = BLACK
    /\ last.x # root
    /\ node[last.x].color = BLACK

\* C29: Delete of a node z with two children puts z's in-order successor y
\* into z's position: y has z's former parent (or is the root), z's former
\* left child as left child, z's former right child as right child (its own
\* former right child when y was that right child), and z's former color;
\* y's former right child x takes y's former position.
C29_SuccessorTakesPlace ==
    [][(/\ last'.op = "DeleteTraced" /\ last'.found
        /\ TwoChildren(T, NodeOf(T, last'.key)))
       => LET z == NodeOf(T, last'.key)
              y == Successor(T, z)
              x == node[y].right
              yp == node[y].parent
          IN  /\ status' = "ok"
              /\ z \notin DOMAIN node'
              /\ node'[y].key = node[y].key
              /\ node'[y].parent = node[z].parent
              /\ IF node[z].parent = NIL THEN root' = y
                 ELSE IF node[node[z].parent].left = z
                      THEN node'[node[z].parent].left = y
                      ELSE node'[node[z].parent].right = y
              /\ node'[y].left = node[z].left
              /\ node'[node[z].left].parent = y
              /\ node'[y].color = node[z].color
              /\ IF y = node[z].right
                 THEN /\ node'[y].right = x
                      /\ x # NIL => node'[x].parent = y
                 ELSE /\ node'[y].right = node[z].right
                      /\ node'[node[z].right].parent = y
                      /\ node'[yp].left = x
                      /\ x # NIL => node'[x].parent = yp
              /\ KeysOf([root |-> root', node |-> node'], node'[y].left)
                    = KeysOf(T, node[z].left)
              /\ KeysOf([root |-> root', node |-> node'], node'[y].right)
                    = KeysOf(T, node[z].right) \ {node[y].key}]_vars

\* The same Delete steps on trees that satisfy the four red-black invariants:
\* the tree after Delete is the structural removal, with x colored Black
\* when y was Black and x is not nil.
C29_OnValidTrees ==
    [][(/\ last'.op = "DeleteTraced" /\ last'.found
        /\ RedBlackTree(T)
        /\ TwoChildren(T, NodeOf(T, last'.key)))
       => LET z == NodeOf(T, last'.key)
              s == Spliced(T, z)
              x == Replacement(T, z)
          IN  /\ status' = "ok"
              /\ [root |-> root', node |-> node']
                    = IF x # NIL /\ node[Vacated(T, z)].color = BLACK
                      THEN [s EXCEPT !.node[x].color = BLACK]
                      ELSE s]_vars

----------------------------------------------------------------------------
\* A caller of Put and Delete whose Put calls are recorded with the cases
\* fixupPut went through, in order.
PutTracedCall(key, data) ==
    /\ status = "ok"
    /\ LET r == Put(T, key, data) IN
       /\ root' = r.t.root
       /\ node' = r.t.node
       /\ status' = IF r.panic THEN "panic" ELSE "ok"
       /\ last' = [op |-> "PutTraced", key |-> key, data |-> data,
                   size |-> Size(T), steps |-> r.steps]
    /\ stored' = stored \cup {key}
    /\ UNCHANGED pkgvars

NextPutDel ==
    \/ \E key \in PutOnlyKeys, data \in KeyPayloads : PutTracedCall(key, data)
    \/ \E key \in Keys : DeleteCall(key)

SpecPutDel == Init /\ [][NextPutDel]_vars

IsCase3(c) == c \in {"case 3 RotateRight", "case 3 RotateLeft"}

\* C30: fixupPut terminates: every Put on a tree reached by Put and Delete
\* returns, after at most one pass of the loop per node of the tree; a pass
\* that applies Case 3 is the last pass; and one Put makes at most two
\* rotations.
C30_FixupPutBounded ==
    last.op = "PutTraced" =>
        /\ status = "ok"
        /\ Len(last.steps) <= last.size + 1
        /\ \A i \in 1..Len(last.steps) : IsCase3(last.steps[i]) => i = Len(last.steps)
        /\ Len(Rotations(last.steps)) <= 2

C30_Witness ==
    /\ last.op = "PutTraced" /\ status = "ok"
    /\ Len(last.steps) = 3
    /\ last.steps[1] = "case 1"
    /\ IsCase3(last.steps[3])

----------------------------------------------------------------------------
\* The position of a key that is not stored

\* The nodes that a search for k from n visits, in order
RECURSIVE SearchPath(_, _, _)
SearchPath(t, n, k) ==
    IF n = NIL THEN <<>>
    ELSE IF k = t.node[n].key THEN <<n>>
    ELSE IF k < t.node[n].key THEN <<n>> \o SearchPath(t, t.node[n].left, k)
    ELSE <<n>> \o SearchPath(t, t.node[n].right, k)

\* The child of p on side d
ChildOn(t, p, d) ==
    IF d = LEFT THEN t.node[p].left
    ELSE IF d = RIGHT THEN t.node[p].right
    ELSE NIL

\* The tree t with a Red leaf z holding (k, data) as the child of p on side d
LinkedLeaf(t, p, d, z, k, data) ==
    LET leaf == [key |-> k, payload |-> data, color |-> RED,
                 left |-> NIL, right |-> NIL, parent |-> p]
        above == IF d = LEFT THEN [t.node[p] EXCEPT !.left = z]
                 ELSE IF d = RIGHT THEN [t.node[p] EXCEPT !.right = z]
                 ELSE t.node[p]
    IN  [root |-> t.root,
         node |-> (z :> leaf) @@ [t.node EXCEPT ![p] = above]]

\* C31: for a key k that a non-empty tree does not store, the lookup reports
\* (false, p, d): p is the last node on the search path for k, d is LEFT or
\* RIGHT, p has no child on side d, and a leaf with key k linked there keeps
\* the tree a strict binary search tree.  Put(k) links its new node there:
\* the tree after Put is that tree after the insertion fixup.
C31_LookupGivesInsertPosition ==
    [][ (last'.op = "Put" /\ ~last'.found /\ root # NIL) =>
           /\ status' = "ok"
           /\ Cardinality(DOMAIN node' \ DOMAIN node) = 1
           /\ \A r \in {GetParent(T, last'.key)} :
                 /\ ~r.found
                 /\ r.parent # NIL
                 /\ r.parent = SearchPath(T, root, last'.key)[
                                   Len(SearchPath(T, root, last'.key))]
                 /\ r.dir \in {LEFT, RIGHT}
                 /\ ChildOn(T, r.parent, r.dir) = NIL
                 /\ \A z \in DOMAIN node' \ DOMAIN node :
                    \A linked \in {LinkedLeaf(T, r.parent, r.dir, z,
                                              last'.key, last'.data)} :
                       /\ IsBST(linked)
                       /\ KeysOf(linked, linked.root)
                             = KeysOf(T, root) \cup {last'.key}
                       /\ T' = fixupPut(linked, z, <<>>).t
                       /\ node[r.parent].color = BLACK => T' = linked
      ]_vars

\* A Put has linked a new key below a node that is not the root, on its
\* left side, and the node is still there.
C31_Witness ==
    /\ Returned /\ last.op = "Put" /\ ~last.found
    /\ Size(T) >= 4
    /\ \E n \in Subtree(T, root) :
          /\ node[n].key = last.key
          /\ node[n].left = NIL /\ node[n].right = NIL
          /\ node[n].parent # NIL /\ node[n].parent # root
          /\ node[node[n].parent].left = n
          /\ node[node[n].parent].color = BLACK

\* C32: Put(k) of a key that is not stored adds exactly one node: the call
\* returns, Has(k) is true, Size() is one more, every node there was keeps
\* its key and payload and Get of every other stored key returns what it
\* returned, and the new node was linked as a Red leaf below a node with no
\* child on that side (as the Black root when the tree was empty) before the
\* insertion fixup ran.
C32_PutAddsOneNode ==
    [][ (last'.op = "Put" /\ ~last'.found) =>
           /\ status' = "ok"
           /\ Has(T', last'.key)
           /\ Size(T') = Size(T) + 1
           /\ Cardinality(DOMAIN node' \ DOMAIN node) = 1
           /\ DOMAIN node \subseteq DOMAIN node'
           /\ \A n \in DOMAIN node :
                 /\ node'[n].key = node[n].key
                 /\ node'[n].payload = node[n].payload
           /\ \A j \in Keys \ {last'.key} :
                 Has(T, j) => /\ Get(T', j) = Get(T, j)
                              /\ Get(T', j)[1]
           /\ \A z \in DOMAIN node' \ DOMAIN node :
                 /\ Subtree(T', root') = Subtree(T, root) \cup {z}
                 /\ node'[z].key = last'.key
                 /\ IF root = NIL
                    THEN /\ root' = z
                         /\ node'[z].color = BLACK
                         /\ node'[z].parent = NIL
                         /\ node'[z].left = NIL /\ node'[z].right = NIL
                    ELSE \E p \in Subtree(T, root), d \in {LEFT, RIGHT} :
                            /\ ChildOn(T, p, d) = NIL
                            /\ \A linked \in {LinkedLeaf(T, p, d, z, last'.key,
                                                         last'.data)} :
                                  T' = fixupPut(linked, z, <<>>).t
      ]_vars

\* A Put has added a fourth key to a tree whose other nodes hold different
\* payloads; the new node is a leaf and still Red.
C32_Witness ==
    /\ Returned /\ last.op = "Put" /\ ~last.found
    /\ Size(T) >= 4
    /\ \E n \in Subtree(T, root) :
          /\ node[n].key = last.key
          /\ node[n].color = RED
          /\ node[n].left = NIL /\ node[n].right = NIL
          /\ node[n].payload = last.data
    /\ \E m, n \in Subtree(T, root) :
          /\ node[m].key # last.key /\ node[n].key # last.key
          /\ node[m].payload = "p1" /\ node[n].payload = "p2"

----------------------------------------------------------------------------
\* What a rotation rewires

\* The tree u is the tree t with the upper pivot a (child b on side `from`)
\* rotated: b stands where a stood, a is b's child on the other side, and
\* b's former child on that side is a's child on side `from`.
Rotated(t, u, a, from) ==
    LET b == ChildOn(t, a, from)
        other == IF from = RIGHT THEN LEFT ELSE RIGHT
        inner == ChildOn(t, b, other)
        ap == t.node[a].parent
    IN
    /\ IF ap = NIL
       THEN u.root = b /\ u.node[b].parent = NIL
       ELSE /\ u.root = t.root
            /\ u.node[b].parent = ap
            /\ t.node[ap].left = a =>
                  u.node[ap].left = b /\ u.node[ap].right = t.node[ap].right
            /\ t.node[ap].left # a =>
                  u.node[ap].right = b /\ u.node[ap].left = t.node[ap].left
    /\ ChildOn(u, b, other) = a /\ u.node[a].parent = b
    /\ ChildOn(u, a, from) = inner
    /\ inner # NIL => u.node[inner].parent = a
    /\ ChildOn(u, a, other) = ChildOn(t, a, other)
    /\ ChildOn(u, b, from) = ChildOn(t, b, from)
    /\ \A n \in Subtree(t, ChildOn(t, a, other)) \cup Subtree(t, ChildOn(t, b, from)) :
          u.node[n] = t.node[n]
    /\ \A n \in Subtree(t, inner) \ {inner} : u.node[n] = t.node[n]
    /\ inner # NIL =>
          /\ u.node[inner].left = t.node[inner].left
          /\ u.node[inner].right = t.node[inner].right

\* C33: RotateLeft(x) with right child y puts y where x stood (the root if x
\* was the root, else the child of x's former parent on x's side), makes x
\* the left child of y and y's former left subtree the right subtree of x,
\* and leaves x's left subtree and y's right subtree as they were.
\* RotateRight(y) with left child x is the mirror image.
C33_RotationSplices ==
    [][ /\ (last'.op = "RotateLeft" /\ last'.x # NIL /\ node[last'.x].right # NIL)
              => Rotated(T, T', last'.x, RIGHT)
        /\ (last'.op = "RotateRight" /\ last'.x # NIL /\ node[last'.x].left # NIL)
              => Rotated(T, T', last'.x, LEFT)
      ]_vars

\* A RotateLeft of a right child that is not the root has handed a subtree
\* from y to x.
C33_Witness ==
    /\ Returned /\ last.op = "RotateLeft" /\ last.applies
    /\ node[last.x].right # NIL
    /\ node[last.x].parent # NIL
    /\ node[node[last.x].parent].parent # NIL
    /\ node[node[node[last.x].parent].parent].right = node[last.x].parent

\* The nodes whose parent link the step has changed
Reparented == { n \in DOMAIN node : node'[n].parent # node[n].parent }

\* C34: RotateLeft and RotateRight, on nil or on any node, change no node's
\* color, key or payload and add or remove no node; the only parent links
\* that change are those of the two pivots and of the root of the subtree
\* that moves between them, three nodes at most.
C34_RotationFrame ==
    [][ last'.op \in {"RotateLeft", "RotateRight"} =>
           LET a == last'.x
               b == IF a = NIL THEN NIL
                    ELSE IF last'.op = "RotateLeft" THEN node[a].right
                    ELSE node[a].left
               inner == IF b = NIL THEN NIL
                        ELSE IF last'.op = "RotateLeft" THEN node[b].left
                        ELSE node[b].right
           IN
           /\ DOMAIN node' = DOMAIN node
           /\ \A n \in DOMAIN node :
                 /\ node'[n].color = node[n].color
                 /\ node'[n].key = node[n].key
                 /\ node'[n].payload = node[n].payload
           /\ Reparented \subseteq ({a, b, inner} \ {NIL})
           /\ Cardinality(Reparented) <= 3
           /\ b = NIL => Reparented = {}
      ]_vars

\* A RotateRight has moved a subtree between two pivots of different colors.
C34_Witness ==
    /\ Returned /\ last.op = "RotateRight" /\ last.applies
    /\ node[last.x].left # NIL
    /\ node[last.x].parent # NIL
    /\ node[last.x].color # node[node[last.x].parent].color
    /\ node[node[last.x].left].color = BLACK

----------------------------------------------------------------------------
\* A caller that also asks: one goroutine calling Put, Delete, Get, Has,
\* GetParent, Size and Walk on a tree made by NewTree.  Size and Walk, like
\* Get, Has and GetParent, assign to no field of the tree or of a node; a
\* visitor writes to its own fields only.

SizeCall ==
    /\ status = "ok"
    /\ last' = [op |-> "Size", res |-> Size(T)]
    /\ UNCHANGED <<root, node, status, stored>>
    /\ UNCHANGED pkgvars

Visitors == {"countingVisitor", "InorderVisitor"}

\* Mutant of WalkCall: a visitor that colors the nodes it visits Black.
WalkCallBlackens(visitor) ==
    /\ status = "ok"
    /\ last' = IF visitor = "countingVisitor"
               THEN [op |-> "Walk", visitor |-> visitor, Count |-> Count(T, root)]
               ELSE [op |-> "Walk", visitor |-> visitor,
                     buffer |-> InorderVisitor(T, root)]
    /\ node' = [n \in DOMAIN node |-> [node[n] EXCEPT !.color = BLACK]]
    /\ UNCHANGED <<root, status, stored>>
    /\ UNCHANGED pkgvars

\* Walk(visitor) with a fresh visitor: visitor.Visit(t.root)
WalkCall(visitor) ==
    /\ status = "ok"
    /\ last' = IF visitor = "countingVisitor"
               THEN [op |-> "Walk", visitor |-> visitor, Count |-> Count(T, root)]
               ELSE [op |-> "Walk", visitor |-> visitor,
                     buffer |-> InorderVisitor(T, root)]
    /\ UNCHANGED <<root, node, status, stored>>
    /\ UNCHANGED pkgvars

NextQueries ==
    \/ \E key \in ApiKeys, data \in KeyPayloads : PutKeyCall(key, data)
    \/ \E key \in ApiKeys : DeleteKeyCall(key)
    \/ \E key \in ApiKeys : GetKeyCall(key)
    \/ \E key \in ApiKeys : HasKeyCall(key)
    \/ \E key \in ApiKeys : GetParentKeyCall(key)
    \/ SizeCall
    \/ \E visitor \in Visitors : WalkCall(visitor)

SpecQueries == Init /\ [][NextQueries]_vars

Queries == {"GetKey", "HasKey", "GetParentKey", "Size", "Walk"}

\* C35: Get, Has and GetParent with any key, Size, and Walk with the
\* counting or the in-order visitor, on any tree that Put and Delete built,
\* return and leave the tree as it was: the root, every link, and every
\* node's color, key and payload, and so the fingerprint and the size.
C35_QueriesReadOnly ==
    [][ last'.op \in Queries =>
           /\ status' = "ok"
           /\ root' = root
           /\ DOMAIN node' = DOMAIN node
           /\ \A n \in DOMAIN node : node'[n] = node[n]
           /\ Fingerprint(T') = Fingerprint(T)
           /\ Size(T') = Size(T)
      ]_vars

\* A Walk with the in-order visitor has returned on a tree of three nodes or
\* more with a Red node, and the buffer holds the tree's fingerprint.
C35_Witness ==
    /\ Returned /\ last.op = "Walk" /\ last.visitor = "InorderVisitor"
    /\ Size(T) >= 3
    /\ \E n \in Subtree(T, root) : Red(n)
    /\ last.buffer = Fingerprint(T)

----------------------------------------------------------------------------
\* A concurrent caller: two goroutines call SetOutput (TraceOn is
\* SetOutput(os.Stderr), TraceOff is SetOutput(ioutil.Discard)) while a third
\* calls Put and Delete on a tree of its own.  A goroutine takes one step at
\* a time; pc[g].at names the statement it executes next.

\* SetOutput(w) is called.
SetOutputCall(g, w) ==
    /\ status = "ok"
    /\ pc[g] = Idle
    /\ pc' = [pc EXCEPT ![g] = [at |-> "lock.Lock", w |-> w]]
    /\ UNCHANGED <<root, node, status, last, stored, lock, logger>>

\* lock.Lock(): blocks while another goroutine holds the mutex.
SetOutputLock(g) ==
    /\ pc[g].at = "lock.Lock"
    /\ lock = Nobody
    /\ lock' = g
    /\ pc' = [pc EXCEPT ![g] = [at |-> "logger = log.New", w |-> pc[g].w]]
    /\ UNCHANGED <<root, node, status, last, stored, logger>>

\* logger = log.New(w, "", log.LstdFlags)
SetOutputAssign(g) ==
    /\ pc[g].at = "logger = log.New"
    /\ logger' = pc[g].w
    /\ pc' = [pc EXCEPT ![g] = [at |-> "lock.Unlock"]]
    /\ UNCHANGED <<root, node, status, last, stored, lock>>

\* The deferred lock.Unlock(), and the return.
SetOutputUnlock(g) ==
    /\ pc[g].at = "lock.Unlock"
    /\ lock' = Nobody
    /\ pc' = [pc EXCEPT ![g] = Idle]
    /\ UNCHANGED <<root, node, status, last, stored, logger>>

\* Put(key, data) or Delete(key) is called.
MethodCall(g, op, key, data) ==
    /\ status = "ok"
    /\ pc[g] = Idle
    /\ pc' = [pc EXCEPT ![g] = [at |-> "logger.Printf", op |-> op,
                                key |-> key, data |-> data]]
    /\ UNCHANGED <<root, node, status, last, stored, lock, logger>>

\* The Logger values that a read of `logger` by g can give: the value of the
\* variable, or, when another goroutine is at its assignment to `logger`, the
\* value being assigned as well (the read and the write are not ordered).
LoggerRead(g) ==
    {logger} \cup { pc[h].w : h \in { h \in Goroutines \ {g} :
                                        pc[h].at = "logger = log.New" } }

\* The method runs: it reads `logger` for its logger.Printf calls, without
\* taking the mutex, and works on the tree.
MethodRun(g) ==
    /\ pc[g].at = "logger.Printf"
    /\ \E seen \in LoggerRead(g) :
          last' = [op |-> pc[g].op, key |-> pc[g].key, data |-> pc[g].data,
                   found |-> Has(T, pc[g].key), logger |-> seen]
    /\ IF pc[g].op = "Put"
       THEN LET r == Put(T, pc[g].key, pc[g].data) IN
            /\ root' = r.t.root
            /\ node' = r.t.node
            /\ status' = IF r.panic THEN "panic" ELSE "ok"
            /\ stored' = stored \cup {pc[g].key}
       ELSE LET r == Delete(T, pc[g].key) IN
            /\ root' = r.t.root
            /\ node' = r.t.node
            /\ status' = IF r.loops THEN "hung" ELSE "ok"
            /\ stored' = stored \ {pc[g].key}
    /\ pc' = [pc EXCEPT ![g] = Idle]
    /\ UNCHANGED <<lock, logger>>

\* The tree of this caller takes no part in the claim: two keys are enough
\* for Put and Delete to go through their logging paths.
LogMaxKey == 2
LogKeys == 1..LogMaxKey

NextLog ==
    \/ \E g \in Setters, w \in Writers : SetOutputCall(g, w)
    \/ \E g \in Setters : SetOutputLock(g)
    \/ \E g \in Setters : SetOutputAssign(g)
    \/ \E g \in Setters : SetOutputUnlock(g)
    \/ \E g \in Workers, key \in LogKeys, data \in KeyPayloads :
          MethodCall(g, "Put", key, data)
    \/ \E g \in Workers, key \in LogKeys : MethodCall(g, "Delete", key, NilPayload)
    \/ \E g \in Workers : MethodRun(g)

SpecLog == Init /\ [][NextLog]_vars

\* The goroutines whose next statement reads or writes `logger`
AtLogger == { g \in Goroutines : pc[g].at \in {"logger = log.New", "logger.Printf"} }

\* Two goroutines are at an access of `logger`, one of them at the write.
LoggerRace ==
    \E g \in AtLogger, h \in AtLogger :
        g # h /\ pc[g].at = "logger = log.New"

\* C36: `lock` protects `logger`: a goroutine that is about to read or write
\* `logger` holds the mutex, and so no two goroutines are at an access of
\* `logger` at once with one of them writing.
C36_LoggerUnderLock ==
    /\ \A g \in AtLogger : lock = g
    /\ ~LoggerRace

====
